---- MODULE Spec2Model ----
(***************************************************************************)
(* PysoRealm (src/src/rpg_game.py): the session life cycle                 *)
(* (__init__, __enter__, run_game_loop, __exit__) and one game-loop        *)
(* iteration per Frame step.                                               *)
(*                                                                         *)
(* Number representation.  Every float of the program (tile coordinates,   *)
(* rectangle fields, seconds, stick magnitude, degrees) is a fixed-point   *)
(* integer counting thousandths: 0.125 tile is 125, 2.0 s is 2000, 22.5    *)
(* degrees is 22500.  A product of two such numbers is divided by 1000,    *)
(* truncating toward zero.                                                 *)
(***************************************************************************)
EXTENDS Integers, Sequences, FiniteSets, Bags, TLC

Milli(n) == n * 1000

TILE_WIDTH == 256
TILE_HEIGHT == 128
TILE_FULL_HEIGHT == 512
WORLD_WIDTH == 12
WORLD_HEIGHT == 12

Max(a, b) == IF a >= b THEN a ELSE b
Min(a, b) == IF a <= b THEN a ELSE b
Abs(a) == IF a >= 0 THEN a ELSE -a

\* division truncating toward zero, b > 0
TDiv(a, b) == IF a >= 0 THEN a \div b ELSE -((-a) \div b)

\* int(x) of a float x: drops the fraction, toward zero
IntTrunc(x) == TDiv(x, 1000)

\* x % m of Python floats, m > 0: the result has the sign of m
PyMod(x, m) == x % m

RECURSIVE ISqrtSearch(_, _, _)
ISqrtSearch(n, lo, hi) ==
    IF lo >= hi THEN lo
    ELSE LET mid == (lo + hi + 1) \div 2
         IN  IF mid * mid <= n THEN ISqrtSearch(n, mid, hi)
             ELSE ISqrtSearch(n, lo, mid - 1)

\* floor of the square root, for n < 2^31
ISqrt(n) == ISqrtSearch(n, 0, 46340)

Rectangle(x, y, w, h) == [x |-> x, y |-> y, width |-> w, height |-> h]
Vector2(x, y) == [x |-> x, y |-> y]

(***************************************************************************)
(* The hit-box catalog and the texture lists of __enter__.                 *)
(***************************************************************************)
HIT_BOX_SMALL == Rectangle(4000 - 125, -3000 - 125, 250, 250)
HIT_BOX_MEDIUM == Rectangle(4000 - 250, -3000 - 250, 500, 500)
HIT_BOX_CHEST_EW == Rectangle(4000 - 125, -3000 - 150, 250, 300)
HIT_BOX_CHEST_NS == Rectangle(4000 - 150, -3000 - 100, 300, 250)
HIT_BOX_SPIRAL_N == Rectangle(4000 - 375, -3000 - 125, 500, 500)
HIT_BOX_SPIRAL_E == Rectangle(4000 - 125, -3000 - 125, 500, 500)
HIT_BOX_SPIRAL_S == Rectangle(4000 - 375, -3000 - 375, 500, 500)
HIT_BOX_SPIRAL_W == Rectangle(4000 - 500, -3000, 625, 500)

Object(t, hb) == [texture |-> t, hit_box |-> hb]

floor ==
    << "stone_N.png", "stone_E.png", "stone_S.png", "stone_W.png",
       "stoneUneven_N.png", "stoneUneven_E.png", "stoneUneven_S.png",
       "stoneUneven_W.png" >>

ground_covering ==
    << "planksBroken_N.png", "planksBroken_E.png", "planksBroken_S.png",
       "planksBroken_W.png" >>

objects ==
    << Object("barrel_N.png", HIT_BOX_SMALL),
       Object("barrel_E.png", HIT_BOX_SMALL),
       Object("barrel_S.png", HIT_BOX_SMALL),
       Object("barrel_W.png", HIT_BOX_SMALL),
       Object("barrels_N.png", HIT_BOX_MEDIUM),
       Object("barrels_E.png", HIT_BOX_MEDIUM),
       Object("barrels_S.png", HIT_BOX_MEDIUM),
       Object("barrels_W.png", HIT_BOX_MEDIUM),
       Object("woodenCrate_N.png", HIT_BOX_SMALL),
       Object("woodenCrate_E.png", HIT_BOX_SMALL),
       Object("woodenCrate_S.png", HIT_BOX_SMALL),
       Object("woodenCrate_W.png", HIT_BOX_SMALL),
       Object("woodenCrates_N.png", HIT_BOX_MEDIUM),
       Object("woodenCrates_E.png", HIT_BOX_MEDIUM),
       Object("woodenCrates_S.png", HIT_BOX_MEDIUM),
       Object("woodenCrates_W.png", HIT_BOX_MEDIUM),
       Object("chestClosed_E.png", HIT_BOX_CHEST_EW),
       Object("chestClosed_S.png", HIT_BOX_CHEST_NS),
       Object("chestClosed_W.png", HIT_BOX_CHEST_EW),
       Object("chestClosed_N.png", HIT_BOX_CHEST_NS),
       Object("chestOpen_E.png", HIT_BOX_CHEST_EW),
       Object("chestOpen_S.png", HIT_BOX_CHEST_NS),
       Object("chestOpen_W.png", HIT_BOX_CHEST_EW),
       Object("chestOpen_N.png", HIT_BOX_CHEST_NS),
       Object("stoneColumn_E.png", HIT_BOX_SMALL),
       Object("stoneColumn_S.png", HIT_BOX_SMALL),
       Object("stoneColumn_W.png", HIT_BOX_SMALL),
       Object("stoneColumn_N.png", HIT_BOX_SMALL),
       Object("stoneColumnWood_E.png", HIT_BOX_SMALL),
       Object("stoneColumnWood_S.png", HIT_BOX_SMALL),
       Object("stoneColumnWood_W.png", HIT_BOX_SMALL),
       Object("stoneColumnWood_N.png", HIT_BOX_SMALL),
       Object("stairsSpiral_E.png", HIT_BOX_SPIRAL_E),
       Object("stairsSpiral_S.png", HIT_BOX_SPIRAL_S),
       Object("stairsSpiral_W.png", HIT_BOX_SPIRAL_W),
       Object("stairsSpiral_N.png", HIT_BOX_SPIRAL_N) >>

walls ==
    << "stoneWall_E.png", "stoneWallColumnIn_E.png",
       "stoneWall_S.png", "stoneWallColumnIn_S.png",
       "stoneWall_W.png", "stoneWallColumnIn_W.png",
       "stoneWall_N.png", "stoneWallColumnIn_N.png",
       "stoneWallCorner_E.png", "stoneWallCorner_S.png",
       "stoneWallCorner_W.png", "stoneWallCorner_N.png",
       "stoneWallGateClosed_E.png", "stoneWallGateClosed_S.png",
       "stoneWallGateClosed_W.png", "stoneWallGateClosed_N.png" >>

Range(s) == { s[i] : i \in DOMAIN s }

\* the keys __enter__ looks up in scene_textures, lines 90-178
SceneLookups ==
    Range(floor) \cup Range(ground_covering)
        \cup { objects[i].texture : i \in DOMAIN objects } \cup Range(walls)

Digit == << "0", "1", "2", "3", "4", "5", "6", "7", "8", "9" >>

\* f"Male_{char_dir}_{anim}{animation_index}.png"
CharacterTextureName(dir, anim, idx) ==
    "Male_" \o Digit[dir + 1] \o "_" \o anim \o Digit[idx + 1] \o ".png"

\* the files the two asset directories are expected to hold
SceneFiles == SceneLookups
CharacterFiles ==
    { CharacterTextureName(d, "Run", k) : d \in 0..7, k \in 0..9 }
        \cup { CharacterTextureName(d, "Pickup", k) : d \in 0..7, k \in 0..9 }
        \cup { CharacterTextureName(d, "Idle", 0) : d \in 0..7 }

(***************************************************************************)
(* random.Random(476).  MT476 lists what the generator seeded with 476     *)
(* returns to the calls one loop iteration makes, in call order:           *)
(* 144 x choice(floor); per cell randint(0, 15) and, on 0,                 *)
(* choice(ground_covering); per cell randint(0, 4) and, on 0,              *)
(* choice(objects).  A choice is listed by the index it picks.             *)
(***************************************************************************)
MT476 ==
    << 7, 4, 5, 5, 7, 6, 3, 7, 0, 0, 2, 2, 6, 3, 1, 4, 0, 5, 5, 6, 6, 6, 6, 6,
       5, 0, 4, 7, 1, 0, 2, 7, 0, 5, 5, 5, 0, 2, 5, 6, 1, 5, 4, 6, 0, 0, 4, 5,
       2, 5, 2, 5, 0, 3, 1, 1, 2, 0, 5, 3, 6, 6, 4, 0, 2, 6, 0, 7, 0, 3, 4, 1,
       3, 6, 1, 1, 0, 2, 2, 4, 1, 2, 7, 3, 6, 1, 6, 3, 5, 4, 1, 0, 5, 2, 6, 0,
       2, 4, 0, 4, 6, 6, 5, 4, 4, 0, 2, 0, 0, 6, 3, 2, 4, 2, 3, 5, 4, 4, 2, 1,
       0, 3, 6, 6, 4, 7, 2, 7, 5, 2, 5, 0, 2, 4, 5, 2, 6, 5, 2, 5, 1, 6, 3, 4,
       13, 6, 8, 15, 12, 7, 0, 1, 15, 8, 7, 8, 10, 11, 6, 9, 2, 10, 1, 11, 0, 0, 14, 6,
       7, 15, 4, 2, 10, 12, 8, 6, 4, 14, 0, 0, 9, 13, 7, 4, 1, 2, 2, 9, 14, 2, 11, 15,
       1, 11, 0, 1, 2, 13, 0, 3, 1, 15, 10, 3, 14, 14, 15, 0, 0, 1, 3, 1, 4, 3, 2, 11,
       5, 12, 15, 13, 7, 7, 0, 0, 10, 13, 12, 11, 2, 11, 15, 15, 13, 6, 14, 3, 9, 14, 15, 10,
       1, 9, 7, 0, 1, 8, 4, 0, 3, 0, 2, 8, 14, 10, 10, 7, 6, 3, 0, 1, 8, 4, 10, 0,
       1, 4, 0, 0, 9, 13, 14, 12, 1, 2, 1, 11, 13, 10, 15, 15, 12, 6, 1, 0, 1, 0, 0, 4,
       12, 13, 13, 5, 10, 6, 9, 10, 15, 6, 8, 15, 8, 7, 1, 4, 0, 32, 3, 0, 28, 0, 16, 4,
       3, 1, 0, 9, 3, 4, 3, 4, 1, 4, 2, 2, 1, 4, 3, 3, 1, 3, 3, 3, 1, 4, 2, 2,
       3, 0, 15, 0, 31, 0, 24, 2, 3, 1, 2, 3, 1, 3, 1, 2, 0, 17, 3, 4, 0, 34, 2, 3,
       3, 0, 3, 3, 1, 1, 4, 4, 1, 2, 2, 4, 3, 3, 3, 2, 0, 30, 1, 4, 3, 4, 4, 2,
       0, 27, 2, 1, 2, 1, 2, 4, 0, 30, 3, 4, 4, 2, 4, 0, 0, 3, 0, 9, 1, 3, 1, 3,
       2, 2, 0, 11, 3, 0, 18, 1, 4, 1, 1, 0, 9, 0, 19, 0, 24, 0, 1, 4, 1, 4, 3, 3,
       0, 4, 1, 2, 3, 1, 2, 2, 1, 0, 12, 0, 16, 2, 3, 2, 4, 2, 1, 0, 24, 0, 26, 0,
       28, 3, 4, 1, 4, 3, 3, 1, 1, 2, 1, 0, 16, 1, 4, 3, 1, 0, 14, 2 >>

Random(seed) == [seed |-> seed, pos |-> 0]

\* the value of the next call on the generator, and the generator after it
RandValue(rng) == MT476[rng.pos + 1]
RandAdvance(rng) == [rng EXCEPT !.pos = @ + 1]

(***************************************************************************)
(* Coordinate mapping, lines 717-729.  Screen coordinates are thousandths  *)
(* of a pixel.                                                             *)
(***************************************************************************)
tile_to_screen_space(u, v) ==
    << TDiv((u + v) * 500, 1000) * TILE_WIDTH,
       TDiv((u - v) * 500, 1000) * TILE_HEIGHT
           - Milli(TILE_FULL_HEIGHT - TILE_HEIGHT) >>

tile_to_screen_space_i32(u, v) ==
    << IntTrunc(tile_to_screen_space(u, v)[1]),
       IntTrunc(tile_to_screen_space(u, v)[2]) >>

(***************************************************************************)
(* Input, lines 264-318.  A frame's input is the set of keys held, the     *)
(* gamepad (availability, stick magnitude, stick angle: the polar form     *)
(* lines 288 and 291 compute from the two axes), the frame time and the    *)
(* value random.uniform(1, 6) would return.                                *)
(***************************************************************************)
Keyboard(keys) ==
    Vector2(
        (IF "W" \in keys THEN -1000 ELSE 0) + (IF "S" \in keys THEN 1000 ELSE 0)
          + (IF "A" \in keys THEN -1000 ELSE 0) + (IF "D" \in keys THEN 1000 ELSE 0),
        (IF "W" \in keys THEN 1000 ELSE 0) + (IF "S" \in keys THEN -1000 ELSE 0)
          + (IF "A" \in keys THEN -1000 ELSE 0) + (IF "D" \in keys THEN 1000 ELSE 0))

Deadzone == 400

\* variant: the zone around 90 degrees gives the intent of the zone around 135
GamepadZone_RightIsEast(angle) ==
    IF angle >= 337500 \/ angle < 22500 THEN Vector2(-1000, 1000)
    ELSE IF 22500 <= angle /\ angle < 67500 THEN Vector2(0, 2000)
    ELSE IF 67500 <= angle /\ angle < 157500 THEN Vector2(2000, 0)
    ELSE IF 157500 <= angle /\ angle < 202500 THEN Vector2(1000, -1000)
    ELSE IF 202500 <= angle /\ angle < 247500 THEN Vector2(0, -2000)
    ELSE IF 247500 <= angle /\ angle < 292500 THEN Vector2(-1000, -1000)
    ELSE IF 292500 <= angle /\ angle < 337500 THEN Vector2(-2000, 0)
    ELSE Vector2(0, 0)

GamepadZone(angle) ==
    IF angle >= 337500 \/ angle < 22500 THEN Vector2(-1000, 1000)
    ELSE IF 22500 <= angle /\ angle < 67500 THEN Vector2(0, 2000)
    ELSE IF 67500 <= angle /\ angle < 112500 THEN Vector2(1000, 1000)
    ELSE IF 112500 <= angle /\ angle < 157500 THEN Vector2(2000, 0)
    ELSE IF 157500 <= angle /\ angle < 202500 THEN Vector2(1000, -1000)
    ELSE IF 202500 <= angle /\ angle < 247500 THEN Vector2(0, -2000)
    ELSE IF 247500 <= angle /\ angle < 292500 THEN Vector2(-1000, -1000)
    ELSE IF 292500 <= angle /\ angle < 337500 THEN Vector2(-2000, 0)
    ELSE Vector2(0, 0)

Gamepad(pad) ==
    IF pad.available /\ pad.magnitude > Deadzone
    THEN GamepadZone(pad.angle)
    ELSE Vector2(0, 0)

\* self.char_dp after the keyboard and gamepad blocks
MovementIntent(keys, pad) ==
    Vector2(Keyboard(keys).x + Gamepad(pad).x, Keyboard(keys).y + Gamepad(pad).y)

(***************************************************************************)
(* Direction resolution, lines 320-338: is_moving is cleared, then the     *)
(* truncated intent is matched against the eight literal pairs.            *)
(***************************************************************************)
\* variant: the east and west cases exchanged
MatchTable_EastWestSwapped ==
    << <<0, 2>>, <<1, 1>>, <<-2, 0>>, <<1, -1>>,
       <<0, -2>>, <<-1, -1>>, <<2, 0>>, <<-1, 1>> >>

MatchTable ==
    << <<0, 2>>, <<1, 1>>, <<2, 0>>, <<1, -1>>,
       <<0, -2>>, <<-1, -1>>, <<-2, 0>>, <<-1, 1>> >>

Matched(dp) ==
    \E k \in DOMAIN MatchTable : MatchTable[k] = <<IntTrunc(dp.x), IntTrunc(dp.y)>>

\* variant: an unmatched intent resets the direction along with is_moving
ResolveDirection_ResetsFacing(dp, dir) ==
    IF Matched(dp)
    THEN [char_dir |-> (CHOOSE k \in DOMAIN MatchTable :
                            MatchTable[k] = <<IntTrunc(dp.x), IntTrunc(dp.y)>>) - 1,
          is_moving |-> TRUE]
    ELSE [char_dir |-> 0, is_moving |-> FALSE]

ResolveDirection(dp, dir) ==
    IF Matched(dp)
    THEN [char_dir |-> (CHOOSE k \in DOMAIN MatchTable :
                            MatchTable[k] = <<IntTrunc(dp.x), IntTrunc(dp.y)>>) - 1,
          is_moving |-> TRUE]
    ELSE [char_dir |-> dir, is_moving |-> FALSE]

(***************************************************************************)
(* Integration and clamp, lines 340-352.                                   *)
(***************************************************************************)
Scaled(v, length) ==
    IF length > 0
    THEN Vector2(TDiv(v.x * 1000, length), TDiv(v.y * 1000, length))
    ELSE v

\* raymath Vector2Normalize
vector2_normalize(v) == Scaled(v, ISqrt(v.x * v.x + v.y * v.y))

\* variant: only an intent matching one of the eight pairs moves the actor
Norm_MatchedOnly(dp) ==
    IF Matched(dp) THEN vector2_normalize(dp) ELSE Vector2(0, 0)

Norm(dp) ==
    IF dp.x # 0 \/ dp.y # 0 THEN vector2_normalize(dp) ELSE Vector2(0, 0)

char_speed == 3000

\* lines 347-348
Advance(pos, norm, dt) ==
    Vector2(pos.x + TDiv(TDiv(norm.x * char_speed, 1000) * dt, 1000),
            pos.y + TDiv(TDiv(norm.y * char_speed, 1000) * dt, 1000))

Integrate(pos, dp, dt) == Advance(pos, Norm(dp), dt)

Clamp(pos) ==
    Vector2(Max(0, Min(pos.x, Milli(WORLD_WIDTH - 1))),
            Max(0, Min(pos.y, Milli(WORLD_HEIGHT - 1))))

(***************************************************************************)
(* Collision resolution, lines 354-379.                                    *)
(***************************************************************************)
CharacterHitBox(pos) ==
    Rectangle(HIT_BOX_SMALL.x + pos.x, HIT_BOX_SMALL.y + pos.y,
              HIT_BOX_SMALL.width, HIT_BOX_SMALL.height)

\* raylib CheckCollisionRecs
check_collision_recs(a, b) ==
    /\ a.x < b.x + b.width
    /\ a.x + a.width > b.x
    /\ a.y < b.y + b.height
    /\ a.y + a.height > b.y

\* raylib GetCollisionRec
get_collision_rec(a, b) ==
    LET left == Max(a.x, b.x)
        right == Min(a.x + a.width, b.x + b.width)
        top == Max(a.y, b.y)
        bottom == Min(a.y + a.height, b.y + b.height)
    IN  IF left < right /\ top < bottom
        THEN Rectangle(left, top, right - left, bottom - top)
        ELSE Rectangle(0, 0, 0, 0)

\* variant: an overlap as wide as high is corrected along Y
Corrected_TieAlongY(pos, diff, box) ==
    IF diff.width >= diff.height
    THEN IF diff.y > box.y
         THEN Vector2(pos.x, pos.y + diff.height)
         ELSE Vector2(pos.x, pos.y - diff.height)
    ELSE IF diff.x > box.x
         THEN Vector2(pos.x + diff.width, pos.y)
         ELSE Vector2(pos.x - diff.width, pos.y)

\* lines 369-377: the position after the correction for one overlap
Corrected(pos, diff, box) ==
    IF diff.width > diff.height
    THEN IF diff.y > box.y
         THEN Vector2(pos.x, pos.y + diff.height)
         ELSE Vector2(pos.x, pos.y - diff.height)
    ELSE IF diff.x > box.x
         THEN Vector2(pos.x + diff.width, pos.y)
         ELSE Vector2(pos.x - diff.width, pos.y)

\* variant: the overlap is corrected but is_moving is left as it was
PushOut_KeepsMoving(st, hit, box) ==
    IF check_collision_recs(hit, box)
    THEN [is_moving |-> st.is_moving,
          was_collision |-> TRUE,
          pos |-> Corrected(st.pos, get_collision_rec(hit, box), box)]
    ELSE st

\* the body of the for loop, lines 364-377, for one box
PushOut(st, hit, box) ==
    IF check_collision_recs(hit, box)
    THEN [is_moving |-> FALSE,
          was_collision |-> TRUE,
          pos |-> Corrected(st.pos, get_collision_rec(hit, box), box)]
    ELSE st

RECURSIVE ResolveFrom(_, _, _, _)
ResolveFrom(st, hit, boxes, i) ==
    IF i > Len(boxes) THEN st
    ELSE ResolveFrom(PushOut(st, hit, boxes[i]), hit, boxes, i + 1)

\* variant: the boxes are generated before the loop runs
BoxesAtResolve_SameFrame(left_over, generated) == generated

\* the list the for loop of line 363 iterates: self.coll_boxes as the
\* previous iteration (or __enter__) left it
BoxesAtResolve(left_over, generated) == left_over

\* variant: the loop stops after the first box the hit box overlaps
ResolveCollisions_FirstHitOnly(pos, moving, boxes) ==
    LET hits == SelectSeq(boxes,
                          LAMBDA b : check_collision_recs(CharacterHitBox(pos), b))
    IN  ResolveFrom([pos |-> pos, is_moving |-> moving, was_collision |-> FALSE],
                    CharacterHitBox(pos), SubSeq(hits, 1, Min(1, Len(hits))), 1)

\* lines 354-377: the actor after the loop over the collision boxes
ResolveCollisions(pos, moving, boxes) ==
    ResolveFrom([pos |-> pos, is_moving |-> moving, was_collision |-> FALSE],
                CharacterHitBox(pos), boxes, 1)

(***************************************************************************)
(* The draw pass, lines 399-579.  A pass returns the generator after its   *)
(* calls and the events it produced; an event is one draw call (or one     *)
(* collision-box registration) and names the texture it was given.         *)
(***************************************************************************)
Event(kind, tex) == [kind |-> kind, tex |-> tex]

CellU(i) == i \div WORLD_WIDTH
CellV(i) == WORLD_HEIGHT - 1 - (i % WORLD_HEIGHT)
Cells == WORLD_WIDTH * WORLD_HEIGHT

\* The scans over the cells lo .. hi-1 are split in halves; the second half
\* starts from the generator the first half leaves, as the loop does.  The
\* first half is evaluated first.

\* ground floor, lines 400-407
RECURSIVE FloorPass(_, _, _)
FloorPass(rng, lo, hi) ==
    IF hi <= lo THEN [rng |-> rng, events |-> << >>]
    ELSE IF hi = lo + 1
    THEN [rng |-> RandAdvance(rng),
          events |-> << Event("floor", floor[RandValue(rng) + 1]) >>]
    ELSE LET mid == (lo + hi) \div 2
             first == FloorPass(rng, lo, mid)
             second == FloorPass(first.rng, mid, hi)
         IN  [events |-> first.events \o second.events, rng |-> second.rng]

\* ground covering, lines 409-418
RECURSIVE CoveringPass(_, _, _)
CoveringPass(rng, lo, hi) ==
    IF hi <= lo THEN [rng |-> rng, events |-> << >>]
    ELSE IF hi = lo + 1
    THEN IF RandValue(rng) # 0
         THEN [rng |-> RandAdvance(rng), events |-> << >>]
         ELSE [rng |-> RandAdvance(RandAdvance(rng)),
               events |-> << Event("ground_covering",
                                   ground_covering[RandValue(RandAdvance(rng)) + 1]) >>]
    ELSE LET mid == (lo + hi) \div 2
             first == CoveringPass(rng, lo, mid)
             second == CoveringPass(first.rng, mid, hi)
         IN  [events |-> first.events \o second.events, rng |-> second.rng]

\* i & 1 and i & 5 of lines 428-429
BitAnd1(i) == i % 2
BitAnd5(i) == (i % 2) + 4 * ((i \div 4) % 2)

\* north corner, north west, north east, west corner, east corner: lines 420-450
NorthWalls ==
    << Event("wall_north_corner", walls[9 + 1]) >>
      \o [k \in 1..(WORLD_HEIGHT - 2) |->
            Event("wall_north_west",
                  walls[(IF BitAnd5(k - 1) = 1 THEN 12 ELSE 1 - BitAnd1(k - 1)) + 1])]
      \o [k \in 1..(WORLD_HEIGHT - 2) |->
            Event("wall_north_east", walls[BitAnd1(k) + 2 + 1])]
      \o << Event("wall_west_corner", walls[8 + 1]),
            Event("wall_east_corner", walls[10 + 1]) >>

\* south east, south west, south corner: lines 514-536
SouthWalls ==
    [k \in 1..(WORLD_HEIGHT - 2) |-> Event("wall_south_east", walls[BitAnd1(k) + 4 + 1])]
      \o [k \in 1..(WORLD_HEIGHT - 2) |->
            Event("wall_south_west", walls[7 - BitAnd1(k) + 1])]
      \o << Event("wall_south_corner", walls[11 + 1]) >>

\* draw_object, lines 686-715: nothing is drawn for a texture whose id is <= 0
draw_object(tex, name, kind) ==
    IF tex[name] <= 0 THEN << >> ELSE << Event(kind, name) >>

\* the cell an obstacle of scan index i is placed on, lines 490-495
\* variant: an obstacle of the last column stays there
ObstacleU_Unshifted(i) == CellU(i)

ObstacleU(i) == IF CellU(i) = WORLD_WIDTH - 1 THEN CellU(i) - 1 ELSE CellU(i)
ObstacleV(i) == IF CellV(i) = 0 THEN CellV(i) + 1 ELSE CellV(i)

\* lines 486-498: the scan that picks the cells holding an obstacle and the
\* template of each, in scan order
RECURSIVE ObjectScan(_, _, _)
ObjectScan(rng, lo, hi) ==
    IF hi <= lo THEN [rng |-> rng, placed |-> << >>]
    ELSE IF hi = lo + 1
    THEN IF RandValue(rng) # 0
         THEN [rng |-> RandAdvance(rng), placed |-> << >>]
         ELSE [rng |-> RandAdvance(RandAdvance(rng)),
               placed |-> << [obj |-> objects[RandValue(RandAdvance(rng)) + 1],
                              u |-> Milli(ObstacleU(lo)),
                              v |-> Milli(ObstacleV(lo))] >>]
    ELSE LET mid == (lo + hi) \div 2
             first == ObjectScan(rng, lo, mid)
             second == ObjectScan(first.rng, mid, hi)
         IN  [placed |-> first.placed \o second.placed, rng |-> second.rng]

\* lines 501-508: the collision box of one placed obstacle
ObjBox(pl) ==
    Rectangle(pl.obj.hit_box.x + pl.u, pl.obj.hit_box.y + pl.v,
              pl.obj.hit_box.width, pl.obj.hit_box.height)

\* lines 499-509: each placed obstacle is drawn and its box appended
RECURSIVE ObjectPass(_, _, _, _, _)
ObjectPass(placed, k, ev, boxes, tex) ==
    IF k > Len(placed) THEN [events |-> ev, coll_boxes |-> boxes]
    ELSE ObjectPass(placed, k + 1,
             ev \o draw_object(tex, placed[k].obj.texture, "object")
                \o << Event("coll_box", placed[k].obj.texture) >>,
             Append(boxes, ObjBox(placed[k])), tex)

\* draw collision boxes, lines 544-577
DebugWireframes(boxes) ==
    [k \in 1..Len(boxes) |-> Event("debug_box", "")]
      \o << Event("debug_character_box", "") >>

(***************************************************************************)
(* Character pose, lines 455-479.                                          *)
(***************************************************************************)
wait_time == 2000

IdleCycleDone(acc) ==
    /\ acc > wait_time
    /\ IntTrunc(PyMod((acc - wait_time) * 10, 10000)) = 0
    /\ (acc - wait_time) * 10 > 9000

\* the key looked up in self.character_textures
CharacterTexture(moving, dir, acc) ==
    IF moving
    THEN CharacterTextureName(dir, "Run", IntTrunc(PyMod(acc * 15, 10000)))
    ELSE IF acc > wait_time /\ ~IdleCycleDone(acc)
    THEN CharacterTextureName(dir, "Pickup",
                              IntTrunc(PyMod((acc - wait_time) * 10, 10000)))
    ELSE CharacterTextureName(dir, "Idle", 0)

\* variant: the decrement is applied whenever the wait is over
AfterPose_AnyIdleFrame(moving, acc, jitter) ==
    IF ~moving /\ acc > wait_time THEN acc - jitter ELSE acc

\* line 473: the accumulator after the pose is chosen
AfterPose(moving, acc, jitter) ==
    IF ~moving /\ IdleCycleDone(acc) THEN acc - jitter ELSE acc

\* variant: the reset is level-triggered on is_moving
EndOfFrameAccumulator_LevelTriggered(acc, dt, was, moving) ==
    IF moving THEN 0 ELSE acc + dt

\* lines 641-644: the accumulator at the end of the iteration
EndOfFrameAccumulator(acc, dt, was, moving) ==
    IF (was /\ ~moving) \/ (~was /\ moving) THEN 0 ELSE acc + dt

(***************************************************************************)
(* The per-iteration generator: line 258 reseeds it with 476 on every      *)
(* iteration, so the three scans consume the same stream every time.       *)
(***************************************************************************)
FrameSeed == 476
FloorDrawn == FloorPass(Random(FrameSeed), 0, Cells)
CoveringDrawn == CoveringPass(FloorDrawn.rng, 0, Cells)
ObjectsPlaced == ObjectScan(CoveringDrawn.rng, 0, Cells)

\* variant: the list is not cleared
ClearBoxes_Keeps(boxes) == boxes

\* line 379: self.coll_boxes.clear()
ClearBoxes(boxes) == << >>

(***************************************************************************)
(* State.                                                                  *)
(***************************************************************************)
VARIABLES
    pc,                     \* "constructed", "running", "exited", "enter_raised"
    exception,              \* the exception that left the with statement
    textures,               \* self.textures: file name -> id of the texture
    acquired,               \* bag of the resources acquired from the platform
    released,               \* bag of the resources given back to it
    char_pos,
    char_dir,
    char_anim_accumulator,
    coll_boxes,
    was_moving,
    is_moving,
    was_collision,
    char_dp,
    dt,
    frame_rand,
    character_hit_box,
    cam_target,
    events,                 \* the draw calls of the latest iteration, in order
    frames                  \* iterations completed

vars ==
    << pc, exception, textures, acquired, released, char_pos, char_dir,
       char_anim_accumulator, coll_boxes, was_moving, is_moving, was_collision,
       char_dp, dt, frame_rand, character_hit_box, cam_target, events, frames >>

actor ==
    << char_pos, char_dir, char_anim_accumulator, coll_boxes, was_moving,
       is_moving, was_collision, char_dp, dt, frame_rand, character_hit_box,
       cam_target, events, frames >>

EmptyDict == [n \in {} |-> 0]

\* variant: the centre of the span 0..WORLD_WIDTH-1 by 0..WORLD_HEIGHT-1
StartPosition_Centre ==
    Vector2(Milli(WORLD_WIDTH - 1) \div 2, Milli(WORLD_HEIGHT - 1) \div 2)

\* line 189
StartPosition ==
    Vector2(Milli(WORLD_WIDTH) \div 2 - 1000, Milli(WORLD_HEIGHT) \div 2 - 1000)

\* __init__, lines 46-57; the attributes __enter__ and the loop assign do
\* not exist yet and hold the value of their first assignment
Init ==
    /\ pc = "constructed"
    /\ exception = "none"
    /\ textures = EmptyDict
    /\ acquired = EmptyBag
    /\ released = EmptyBag
    /\ char_pos = StartPosition
    /\ char_dir = 0
    /\ char_anim_accumulator = 0
    /\ coll_boxes = << >>
    /\ was_moving = FALSE
    /\ is_moving = FALSE
    /\ was_collision = FALSE
    /\ char_dp = Vector2(0, 0)
    /\ dt = 0
    /\ frame_rand = Random(FrameSeed)
    /\ character_hit_box = CharacterHitBox(char_pos)
    /\ cam_target = << Milli(TILE_WIDTH) \div 2, Milli(TILE_HEIGHT) \div 2 >>
    /\ events = << >>
    /\ frames = 0

(***************************************************************************)
(* __enter__, lines 59-205.  files maps each file the two globs find to    *)
(* whether the platform can load it.                                       *)
(***************************************************************************)
\* load_directory_of_textures, lines 660-677, for both directories
LoadTextures(files) ==
    [n \in DOMAIN files |-> IF files[n] THEN 1 ELSE 0]

\* the resources held from the platform; a texture is named by its file
Texture(n) == n
Window == "window"
RenderTarget == "render_target"
Shader == "shader"

TextureBag(dict) == SetToBag({ Texture(n) : n \in DOMAIN dict })

\* every key of lines 90-178 is present
LookupsSucceed(dict) == SceneLookups \subseteq DOMAIN dict

Enter(files) ==
    /\ pc = "constructed"
    /\ LookupsSucceed(LoadTextures(files))
    /\ textures' = LoadTextures(files)
    /\ acquired' = SetToBag({Window}) (+) TextureBag(LoadTextures(files))
                     (+) SetToBag({RenderTarget}) (+) SetToBag({Shader})
    /\ char_pos' = StartPosition
    /\ char_dir' = 0
    /\ char_anim_accumulator' = 0
    /\ coll_boxes' = << >>
    /\ was_moving' = FALSE
    /\ cam_target' = << Milli(TILE_WIDTH) \div 2, Milli(TILE_HEIGHT) \div 2 >>
    /\ pc' = "running"
    /\ UNCHANGED << exception, released, is_moving, was_collision, char_dp, dt,
                    frame_rand, character_hit_box, events, frames >>

\* a KeyError at lines 90-178 leaves __enter__; the with statement of line
\* 744 does not call __exit__ when __enter__ raises
EnterRaises(files) ==
    /\ pc = "constructed"
    /\ ~LookupsSucceed(LoadTextures(files))
    /\ textures' = LoadTextures(files)
    /\ acquired' = SetToBag({Window}) (+) TextureBag(LoadTextures(files))
    /\ pc' = "enter_raised"
    /\ exception' = "KeyError"
    /\ UNCHANGED << released, actor >>

(***************************************************************************)
(* __exit__, lines 207-239.  fail names the release call that raises, if   *)
(* any; the except clause of line 236 skips the calls after it.            *)
(***************************************************************************)
ReleaseSteps == << "shader", "render_target", "scene_textures",
                   "character_textures", "window" >>

StepIndex(step) == CHOOSE k \in DOMAIN ReleaseSteps : ReleaseSteps[k] = step

\* the release calls that complete
Completed(fail) ==
    IF fail = "none" THEN Range(ReleaseSteps)
    ELSE { ReleaseSteps[k] : k \in 1..(StepIndex(fail) - 1) }

\* unload_directory_of_textures, lines 679-684: unloads and clears the dict
UnloadDirectory(dict) == [released |-> TextureBag(dict), dict |-> EmptyDict]

Cleanup(dict, fail) ==
    LET done == Completed(fail)
        first == IF "scene_textures" \in done
                 THEN UnloadDirectory(dict)
                 ELSE [released |-> EmptyBag, dict |-> dict]
        \* scene_textures and character_textures are both self.textures
        second == IF "character_textures" \in done
                  THEN UnloadDirectory(first.dict)
                  ELSE [released |-> EmptyBag, dict |-> first.dict]
    IN  [released |->
            (IF "shader" \in done THEN SetToBag({Shader}) ELSE EmptyBag)
              (+) (IF "render_target" \in done THEN SetToBag({RenderTarget}) ELSE EmptyBag)
              (+) first.released (+) second.released
              (+) (IF "window" \in done THEN SetToBag({Window}) ELSE EmptyBag),
         dict |-> second.dict]

ReleaseFailures == {"none"} \cup Range(ReleaseSteps)

(***************************************************************************)
(* One iteration of the loop of run_game_loop, lines 257-647.              *)
(***************************************************************************)
\* lines 264-453: input, direction, integration, clamp, collisions, camera
HeadRecord(dp, resolved, moved, collided) ==
    [char_dp |-> dp,
     char_dir |-> resolved.char_dir,
     is_moving |-> collided.is_moving,
     was_collision |-> collided.was_collision,
     char_pos |-> collided.pos,
     character_hit_box |-> CharacterHitBox(moved),
     cam_target |-> tile_to_screen_space(collided.pos.x, collided.pos.y),
     \* the key of lines 456-479
     pose |-> CharacterTexture(collided.is_moving, resolved.char_dir,
                               char_anim_accumulator)]

\* the boxes the draw pass of one iteration registers, lines 486-509
Generated == ObjectPass(ObjectsPlaced.placed, 1, << >>, << >>, textures)

HeadCollide(dp, resolved, moved) ==
    HeadRecord(dp, resolved, moved,
               ResolveCollisions(moved, resolved.is_moving,
                                 BoxesAtResolve(coll_boxes, Generated.coll_boxes)))

HeadMove(inp, dp) ==
    HeadCollide(dp, ResolveDirection(dp, char_dir),
                Clamp(Integrate(char_pos, dp, inp.dt)))

FrameHead(inp) == HeadMove(inp, MovementIntent(inp.keys, inp.pad))

\* lines 486-509, appending to the list line 379 cleared
Populated ==
    ObjectPass(ObjectsPlaced.placed, 1, << >>, ClearBoxes(coll_boxes), textures)

HeadEvents ==
    << Event("resolve_collisions", ""), Event("clear_coll_boxes", "") >>
      \o FloorDrawn.events \o CoveringDrawn.events \o NorthWalls

AssignHead(h, inp) ==
    /\ dt' = inp.dt
    /\ char_dp' = h.char_dp
    /\ char_dir' = h.char_dir
    /\ is_moving' = h.is_moving
    /\ was_collision' = h.was_collision
    /\ char_pos' = h.char_pos
    /\ character_hit_box' = h.character_hit_box
    /\ cam_target' = h.cam_target

\* variant: the character is drawn after the obstacles
Completes_CharacterLast(inp, h, pop) ==
    /\ h.pose \in DOMAIN textures
    /\ AssignHead(h, inp)
    /\ frame_rand' = ObjectsPlaced.rng
    /\ coll_boxes' = pop.coll_boxes
    /\ events' = HeadEvents
                   \o pop.events
                   \o draw_object(textures, h.pose, "character")
                   \o SouthWalls
                   \o DebugWireframes(pop.coll_boxes)
                   \o (IF h.was_collision
                       THEN << Event("text_collision", "") >> ELSE << >>)
    /\ char_anim_accumulator' =
           EndOfFrameAccumulator(
               AfterPose(h.is_moving, char_anim_accumulator, inp.jitter),
               inp.dt, was_moving, h.is_moving)
    /\ was_moving' = h.is_moving

\* the iteration completes: h is the head of the iteration, pop the draw pass
\* of the obstacles
Completes(inp, h, pop) ==
    /\ h.pose \in DOMAIN textures
    /\ AssignHead(h, inp)
    /\ frame_rand' = ObjectsPlaced.rng
    /\ coll_boxes' = pop.coll_boxes
    /\ events' = HeadEvents
                   \o draw_object(textures, h.pose, "character")
                   \o pop.events
                   \o SouthWalls
                   \o DebugWireframes(pop.coll_boxes)
                   \o (IF h.was_collision
                       THEN << Event("text_collision", "") >> ELSE << >>)
    /\ char_anim_accumulator' =
           EndOfFrameAccumulator(
               AfterPose(h.is_moving, char_anim_accumulator, inp.jitter),
               inp.dt, was_moving, h.is_moving)
    /\ was_moving' = h.is_moving

Frame(inp, max) ==
    /\ pc = "running"
    /\ frames < max
    /\ Completes(inp, FrameHead(inp), Populated)
    /\ frames' = frames + 1
    /\ UNCHANGED << pc, exception, textures, acquired, released >>

\* the lookup of lines 458-479 raises KeyError: the iteration stops there
Raises(inp, h) ==
    /\ h.pose \notin DOMAIN textures
    /\ AssignHead(h, inp)

ExitWith(cleanup) ==
    /\ released' = released (+) cleanup.released
    /\ textures' = cleanup.dict
    /\ pc' = "exited"

\* the exception leaves run_game_loop and the with statement runs __exit__
FrameRaises(inp, max, fail) ==
    /\ pc = "running"
    /\ frames < max
    /\ Raises(inp, FrameHead(inp))
    /\ frame_rand' = CoveringDrawn.rng
    /\ coll_boxes' = ClearBoxes(coll_boxes)
    /\ events' = HeadEvents
    /\ ExitWith(Cleanup(textures, fail))
    /\ exception' = "KeyError"
    /\ UNCHANGED << acquired, char_anim_accumulator, was_moving, frames >>

\* window_should_close() ends the loop and the with statement runs __exit__
Close(fail) ==
    /\ pc = "running"
    /\ ExitWith(Cleanup(textures, fail))
    /\ UNCHANGED << exception, acquired, actor >>

(***************************************************************************)
(* Inputs.                                                                 *)
(***************************************************************************)
AllFiles == [n \in SceneFiles \cup CharacterFiles |-> TRUE]
Without(files, names) == [n \in (DOMAIN files) \ names |-> files[n]]

FileSystems ==
    { AllFiles,
      Without(AllFiles, {"stoneWall_N.png"}),
      Without(AllFiles, {"Male_0_Idle0.png"}) }

KeySets == SUBSET {"W", "S", "A", "D"}

NoPad == [available |-> FALSE, magnitude |-> 0, angle |-> 0]
Stick(m, a) == [available |-> TRUE, magnitude |-> m, angle |-> a]

Pads ==
    { NoPad, Stick(300, 90000) }
      \cup { Stick(800, a * 45000) : a \in 0..7 }

Input(k, p, d, j) == [keys |-> k, pad |-> p, dt |-> d, jitter |-> j]

\* keyboard and gamepad in every combination, at one frame time
MaxFrames == 2
InputsAll == { Input(k, p, 550, 3500) : k \in KeySets, p \in Pads }

\* a few keys, short and long frames, the ends of the jitter range
MaxWalkFrames == 3
InputsWalk ==
    { Input(k, NoPad, d, j) :
        k \in { {}, {"W"}, {"D"}, {"W", "D"} }, d \in {550, 2450}, j \in {1000, 5999} }

Next ==
    \/ \E files \in FileSystems : Enter(files)
    \/ \E files \in FileSystems : EnterRaises(files)
    \/ \E inp \in InputsAll : Frame(inp, MaxFrames)
    \/ \E inp \in InputsAll : FrameRaises(inp, MaxFrames, "none")
    \/ \E fail \in ReleaseFailures : Close(fail)

Spec == Init /\ [][Next]_vars

NextWalk ==
    \/ \E files \in FileSystems : Enter(files)
    \/ \E files \in FileSystems : EnterRaises(files)
    \/ \E inp \in InputsWalk : Frame(inp, MaxWalkFrames)
    \/ \E inp \in InputsWalk : FrameRaises(inp, MaxWalkFrames, "none")
    \/ \E fail \in ReleaseFailures : Close(fail)

SpecWalk == Init /\ [][NextWalk]_vars

\* the gamepad alone: no key held, every stick zone, short and long frames
MaxPadFrames == 2
InputsPad == { Input({}, p, d, 3500) : p \in Pads, d \in {550, 1100} }

NextPad ==
    \/ \E files \in FileSystems : Enter(files)
    \/ \E files \in FileSystems : EnterRaises(files)
    \/ \E inp \in InputsPad : Frame(inp, MaxPadFrames)
    \/ \E inp \in InputsPad : FrameRaises(inp, MaxPadFrames, "none")
    \/ \E fail \in ReleaseFailures : Close(fail)

SpecPad == Init /\ [][NextPad]_vars

\* keys and stick held together: a matched pair, an unmatched non-zero sum,
\* a cancelling sum; half-second and one-second frames
MaxHoldFrames == 3
InputsHold ==
    { Input(k, p, d, 3500) :
        k \in { {}, {"S", "A"}, {"D"} },
        p \in { NoPad, Stick(800, 45000), Stick(800, 90000) },
        d \in {500, 1000} }

NextHold ==
    \/ \E files \in FileSystems : Enter(files)
    \/ \E files \in FileSystems : EnterRaises(files)
    \/ \E inp \in InputsHold : Frame(inp, MaxHoldFrames)
    \/ \E inp \in InputsHold : FrameRaises(inp, MaxHoldFrames, "none")
    \/ \E fail \in ReleaseFailures : Close(fail)

SpecHold == Init /\ [][NextHold]_vars

\* the stick alone towards +v and towards +u, with frame times that carry
\* the actor from the start to the cell two obstacles share
MaxMultiFrames == 3
InputsMulti ==
    { Input({}, p, d, 3500) :
        p \in { NoPad, Stick(800, 45000), Stick(800, 135000) },
        d \in {350, 1653} }

NextMulti ==
    \/ \E files \in FileSystems : Enter(files)
    \/ \E files \in FileSystems : EnterRaises(files)
    \/ \E inp \in InputsMulti : Frame(inp, MaxMultiFrames)
    \/ \E inp \in InputsMulti : FrameRaises(inp, MaxMultiFrames, "none")
    \/ \E fail \in ReleaseFailures : Close(fail)

SpecMulti == Init /\ [][NextMulti]_vars

(***************************************************************************)
(* Properties.                                                             *)
(***************************************************************************)
\* a state at the end of a completed iteration
EndOfFrame == pc = "running" /\ frames >= 1

\* a step that is one completed iteration
FrameStep == pc = "running" /\ pc' = "running" /\ frames' = frames + 1

\* the truncated intent of the latest iteration
IntentPair == << IntTrunc(char_dp.x), IntTrunc(char_dp.y) >>

DocumentedPairs ==
    { <<0, 2>>, <<1, 1>>, <<2, 0>>, <<1, -1>>,
      <<0, -2>>, <<-1, -1>>, <<-2, 0>>, <<-1, 1>> }

\* C1 as stated: in an iteration whose truncated intent is none of the eight
\* pairs, direction and is_moving end the iteration with the values the
\* previous iteration left.
C1_StickyDirectionAndMoving ==
    [][(FrameStep /\ IntentPair' \notin DocumentedPairs)
          => (char_dir' = char_dir /\ is_moving' = is_moving)]_vars

\* C1 amended: in an iteration whose truncated intent is none of the eight
\* pairs, the direction keeps the value the previous iteration left and
\* is_moving is false.
C1_StickyDirectionOnly ==
    [][(FrameStep /\ IntentPair' \notin DocumentedPairs)
          => (char_dir' = char_dir /\ is_moving' = FALSE)]_vars

\* an unmatched, non-zero intent in the iteration after one that moved the
\* actor south-east
C1_Witness ==
    /\ EndOfFrame
    /\ frames = 2
    /\ IntentPair \notin DocumentedPairs
    /\ IntentPair # <<0, 0>>
    /\ char_dir = 3
    /\ ~is_moving
    /\ char_anim_accumulator = 0

\* C2: each of the eight pairs sets the documented direction index and
\* is_moving (which only a collision of the same iteration clears again), and
\* the direction is one of 0..7 in every state.
C2_DirectionTable ==
    /\ char_dir \in 0..7
    /\ EndOfFrame =>
         /\ IntentPair = <<0, 2>> => char_dir = 0
         /\ IntentPair = <<1, 1>> => char_dir = 1
         /\ IntentPair = <<2, 0>> => char_dir = 2
         /\ IntentPair = <<1, -1>> => char_dir = 3
         /\ IntentPair = <<0, -2>> => char_dir = 4
         /\ IntentPair = <<-1, -1>> => char_dir = 5
         /\ IntentPair = <<-2, 0>> => char_dir = 6
         /\ IntentPair = <<-1, 1>> => char_dir = 7
         /\ IntentPair \in DocumentedPairs => (is_moving <=> ~was_collision)

\* the actor moving west after an iteration that faced it elsewhere
C2_Witness ==
    /\ EndOfFrame
    /\ frames = 2
    /\ IntentPair = <<-2, 0>>
    /\ char_dir = 6
    /\ is_moving
    /\ char_anim_accumulator > 0

\* the actor's hit box overlaps one of the boxes
Overlaps(hit, boxes) ==
    \E k \in DOMAIN boxes : check_collision_recs(hit, boxes[k])

\* position of the first event of a kind in a sequence of events, 0 if none
FirstOf(ev, kind) ==
    IF \E k \in DOMAIN ev : ev[k].kind = kind
    THEN CHOOSE k \in DOMAIN ev :
            /\ ev[k].kind = kind
            /\ \A j \in 1..(k - 1) : ev[j].kind # kind
    ELSE 0

\* C3 as stated: in every iteration the collision boxes are generated before
\* the actor is resolved, and the actor is resolved against the boxes that
\* iteration generated.
C3_ResolvedAgainstSameFrame ==
    EndOfFrame =>
        /\ FirstOf(events, "coll_box") < FirstOf(events, "resolve_collisions")
        /\ was_collision <=> Overlaps(character_hit_box, coll_boxes)

\* C3 amended: in every iteration the actor is resolved before the collision
\* boxes are regenerated, against the boxes the previous iteration left: none
\* in the first iteration.
C3_ResolvedAgainstPreviousFrame ==
    [][FrameStep =>
          /\ FirstOf(events', "resolve_collisions") < FirstOf(events', "coll_box")
          /\ was_collision' <=> Overlaps(character_hit_box', coll_boxes)
          /\ frames = 0 => ~was_collision']_vars

\* the first iteration ends with the actor inside an obstacle and no collision
C3_Witness ==
    /\ EndOfFrame
    /\ frames = 1
    /\ ~was_collision
    /\ Overlaps(character_hit_box, coll_boxes)

\* C4: from the second iteration on, an iteration leaves the collision-box
\* list and the per-iteration generator exactly as the previous one left
\* them, and the list holds one box per obstacle of the scan.
C4_SameBoxesEveryFrame ==
    [][FrameStep =>
          /\ Len(coll_boxes') = Len(ObjectsPlaced.placed)
          /\ frames >= 1 => (coll_boxes' = coll_boxes /\ frame_rand' = frame_rand)]_vars

\* a later iteration, after a collision and an idle-jitter draw
C4_Witness ==
    /\ EndOfFrame
    /\ frames >= 3
    /\ was_collision
    /\ char_anim_accumulator < 0
    /\ coll_boxes # << >>

\* the overlap of two rectangles along each axis, as interval arithmetic
OverlapWidth(a, b) == Min(a.x + a.width, b.x + b.width) - Max(a.x, b.x)
OverlapHeight(a, b) == Min(a.y + a.height, b.y + b.height) - Max(a.y, b.y)
Intersect(a, b) == OverlapWidth(a, b) > 0 /\ OverlapHeight(a, b) > 0

\* the correction the stated rule gives for one box
StatedPush(a, b) ==
    IF ~Intersect(a, b) THEN Vector2(0, 0)
    ELSE IF OverlapWidth(a, b) > OverlapHeight(a, b)
    THEN Vector2(0, IF Max(a.y, b.y) > b.y
                    THEN OverlapHeight(a, b) ELSE -OverlapHeight(a, b))
    ELSE Vector2(IF Max(a.x, b.x) > b.x
                 THEN OverlapWidth(a, b) ELSE -OverlapWidth(a, b), 0)

\* the position the hit box of an iteration was computed from
HitBoxOrigin(hit) == Vector2(hit.x - HIT_BOX_SMALL.x, hit.y - HIT_BOX_SMALL.y)

Hits(hit, boxes) == { k \in DOMAIN boxes : Intersect(hit, boxes[k]) }

\* C5: a box the hit box does not overlap changes nothing; a single box it
\* overlaps moves the actor along Y by the overlap height when the overlap is
\* wider than high, else along X by the overlap width, the sign given by
\* comparing the overlap's origin with the box's.
C5_PushOutRule ==
    [][FrameStep =>
          /\ Hits(character_hit_box', coll_boxes) = {}
                => char_pos' = HitBoxOrigin(character_hit_box')
          /\ \A k \in DOMAIN coll_boxes :
                Hits(character_hit_box', coll_boxes) = {k} =>
                    /\ char_pos'.x = HitBoxOrigin(character_hit_box').x
                                       + StatedPush(character_hit_box', coll_boxes[k]).x
                    /\ char_pos'.y = HitBoxOrigin(character_hit_box').y
                                       + StatedPush(character_hit_box', coll_boxes[k]).y]_vars

\* an iteration that pushed the actor along Y only
C5_Witness ==
    /\ EndOfFrame
    /\ was_collision
    /\ char_pos.y # HitBoxOrigin(character_hit_box).y
    /\ char_pos.x = HitBoxOrigin(character_hit_box).x

\* C6: an iteration ends with was_collision true exactly when the hit box
\* overlapped a box of the list it was tested against; is_moving is then
\* false; the hit box is the one of the integrated, clamped position and the
\* end position differs from that position by the corrections only, each at
\* most one hit-box side.
C6_CollisionFlags ==
    [][FrameStep =>
          /\ was_collision' <=> Hits(character_hit_box', coll_boxes) # {}
          /\ was_collision' => ~is_moving'
          /\ HitBoxOrigin(character_hit_box')
                = Clamp(Integrate(char_pos, char_dp', dt'))
          /\ Abs(char_pos'.x - HitBoxOrigin(character_hit_box').x)
               + Abs(char_pos'.y - HitBoxOrigin(character_hit_box').y)
               <= HIT_BOX_SMALL.width * Cardinality(Hits(character_hit_box', coll_boxes))]_vars

\* a collision in an iteration whose input asked for movement to the north-east
C6_Witness ==
    /\ EndOfFrame
    /\ was_collision
    /\ ~is_moving
    /\ IntentPair = <<1, 1>>
    /\ char_dir = 1

\* C7: an iteration whose final is_moving differs from the previous
\* iteration's ends with the accumulator at 0; any other iteration ends with
\* the previous value plus the frame time, less the idle-jitter decrement
\* when the idle cycle completed in it.
C7_EdgeTriggeredReset ==
    [][FrameStep =>
          /\ was_moving' = is_moving'
          /\ IF is_moving' # was_moving
             THEN char_anim_accumulator' = 0
             ELSE \/ char_anim_accumulator' = char_anim_accumulator + dt'
                  \/ /\ ~is_moving'
                     /\ IdleCycleDone(char_anim_accumulator)
                     /\ char_anim_accumulator + dt' - char_anim_accumulator'
                          \in 1000..5999]_vars

\* the iteration after a moving one in which the keys were released
C7_Witness ==
    /\ EndOfFrame
    /\ frames >= 2
    /\ char_anim_accumulator = 0
    /\ ~is_moving
    /\ ~was_collision
    /\ char_pos # StartPosition
    /\ dt > 0

\* C8 as stated: the accumulator is never negative.
C8_NonNegative == char_anim_accumulator >= 0

\* C8 amended: the accumulator stays above -3 s; it turns negative only in an
\* iteration that completes the idle pickup cycle and applies the decrement.
C8_BoundedBelow ==
    [][/\ char_anim_accumulator' > -3000
       /\ (char_anim_accumulator >= 0 /\ char_anim_accumulator' < 0)
            => (FrameStep /\ ~is_moving' /\ IdleCycleDone(char_anim_accumulator))]_vars

\* the end of an iteration that applied the decrement, without a collision
C8_Witness ==
    /\ EndOfFrame
    /\ char_anim_accumulator < 0
    /\ ~was_collision
    /\ char_pos = StartPosition

\* C9: at the end of every iteration the position is inside the world and the
\* camera target is the screen position of that point.
C9_InsideWorld ==
    EndOfFrame =>
        /\ 0 <= char_pos.x /\ char_pos.x <= Milli(WORLD_WIDTH - 1)
        /\ 0 <= char_pos.y /\ char_pos.y <= Milli(WORLD_HEIGHT - 1)
        /\ cam_target = tile_to_screen_space(char_pos.x, char_pos.y)

\* C10: when the session has ended, on any path, every resource acquired has
\* been released exactly once.
C10_ReleasedExactlyOnce ==
    pc \in {"exited", "enter_raised"} =>
        /\ \A r \in BagToSet(acquired) : CopiesIn(r, released) = 1
        /\ \A r \in BagToSet(released) : BagIn(r, acquired)

\* C11 as stated: a directory or file the globs do not find is not fatal:
\* __enter__ returns, the loop is reached and no lookup or draw raises.
C11_MissingAssetNonFatal ==
    /\ pc # "enter_raised"
    /\ exception = "none"

\* an iteration run with no key held and the stick at 90 degrees, magnitude 0.8
StickAt90Step ==
    \E inp \in InputsPad :
        /\ inp.keys = {}
        /\ inp.pad = Stick(800, 90000)
        /\ Frame(inp, MaxPadFrames)

\* C12 as stated: with no key held and the stick at 90 degrees, magnitude
\* 0.8, the intent is (1,1), the direction is E (index 2) and is_moving is
\* true after input resolution (a collision of the same iteration clears it).
C12_StickAt90FacesEast ==
    [][StickAt90Step =>
          /\ char_dp' = Vector2(1000, 1000)
          /\ char_dir' = 2
          /\ is_moving' <=> ~was_collision']_vars

\* C12 amended: with no key held and the stick at 90 degrees, magnitude 0.8,
\* the intent is (1,1), the direction is NE (index 1) and is_moving is true
\* after input resolution (a collision of the same iteration clears it).
C12_StickAt90FacesNorthEast ==
    [][StickAt90Step =>
          /\ char_dp' = Vector2(1000, 1000)
          /\ char_dir' = 1
          /\ ResolveDirection(char_dp', char_dir).is_moving
          /\ is_moving' <=> ~was_collision']_vars

\* the end of an iteration driven by the stick at 90 degrees after one that
\* faced the actor elsewhere
C12_Witness ==
    /\ EndOfFrame
    /\ frames = 2
    /\ char_dp = Vector2(1000, 1000)
    /\ char_dir = 1
    /\ is_moving
    /\ char_anim_accumulator = 0

\* the session has started and no iteration has run
SessionStart == pc = "running" /\ frames = 0

\* C13 as stated: at session start, before the first iteration, the actor is
\* at tile (5.5, 5.5).
C13_StartsAtCentre ==
    SessionStart => char_pos = Vector2(5500, 5500)

\* C13 amended: at session start, before the first iteration, the actor is at
\* tile (5, 5), one tile short of half the world size on each axis.
C13_StartsAtFiveFive ==
    SessionStart =>
        /\ char_pos = Vector2(5000, 5000)
        /\ 2 * (char_pos.x + 1000) = Milli(WORLD_WIDTH)
        /\ 2 * (char_pos.y + 1000) = Milli(WORLD_HEIGHT)

\* the session just started, all textures found
C13_Witness ==
    /\ SessionStart
    /\ char_pos = Vector2(5000, 5000)
    /\ DOMAIN textures = DOMAIN AllFiles
    /\ coll_boxes = << >>

\* one coordinate clamped to 0..limit
ClampTo(c, limit) == Max(0, Min(c, limit))

\* speed x frame time x one component of the unit vector of the intent, in
\* one division
StatedStep(dp, frame_time, c) ==
    IF dp.x = 0 /\ dp.y = 0 THEN 0
    ELSE TDiv(3 * frame_time * c, ISqrt(dp.x * dp.x + dp.y * dp.y))

\* C14: the position an iteration integrates and clamps (the origin of its
\* hit box) is the previous position plus 3.0 x frame time along the unit
\* vector of the intent, matched or not, each coordinate clamped to the
\* world (to within the rounding of the thousandths); a zero intent adds
\* nothing; the intent (0,-2) lowers v by exactly 3 x frame time or to 0.
C14_Integration ==
    [][FrameStep =>
          LET o == HitBoxOrigin(character_hit_box')
              ex == ClampTo(char_pos.x + StatedStep(char_dp', dt', char_dp'.x),
                            Milli(WORLD_WIDTH - 1))
              ey == ClampTo(char_pos.y + StatedStep(char_dp', dt', char_dp'.y),
                            Milli(WORLD_HEIGHT - 1))
          IN  /\ Abs(o.x - ex) <= 4
              /\ Abs(o.y - ey) <= 4
              /\ char_dp' = Vector2(0, 0) =>
                    o = Vector2(ClampTo(char_pos.x, Milli(WORLD_WIDTH - 1)),
                                ClampTo(char_pos.y, Milli(WORLD_HEIGHT - 1)))
              /\ char_dp' = Vector2(0, -2000) =>
                    /\ o.x = ClampTo(char_pos.x, Milli(WORLD_WIDTH - 1))
                    /\ o.y = Max(0, char_pos.y - 3 * dt')
              /\ ~was_collision' => char_pos' = o]_vars

\* two half-second iterations with the intent (0,-2) and no collision have
\* lowered v from 5 to 2
C14_Witness ==
    /\ EndOfFrame
    /\ frames = 2
    /\ dt = 500
    /\ char_dp = Vector2(0, -2000)
    /\ char_anim_accumulator = 500
    /\ ~was_collision
    /\ char_pos = Vector2(5000, 2000)

\* a registered box is the hit box of a catalog object moved to a cell
Fits(box, hb) ==
    /\ box.width = hb.width
    /\ box.height = hb.height
    /\ (box.x - hb.x) % 1000 = 0
    /\ (box.y - hb.y) % 1000 = 0

CellOf(box, hb) == << (box.x - hb.x) \div 1000, (box.y - hb.y) \div 1000 >>

\* the cell(s) of the obstacle a registered box belongs to
ObstacleCells(box) ==
    { CellOf(box, objects[j].hit_box) :
        j \in { i \in DOMAIN objects : Fits(box, objects[i].hit_box) } }

PlacedCells == UNION { ObstacleCells(coll_boxes[k]) : k \in DOMAIN coll_boxes }

\* C15 as stated: no obstacle an iteration generated is on a cell of the
\* outer ring, u in {0, WORLD_WIDTH-1} or v in {0, WORLD_HEIGHT-1}.
C15_NoObstacleOnRing ==
    EndOfFrame =>
        \A c \in PlacedCells :
            /\ c[1] \notin {0, WORLD_WIDTH - 1}
            /\ c[2] \notin {0, WORLD_HEIGHT - 1}

\* C15 amended: every registered box belongs to an obstacle on a cell of the
\* world; none is on the column u = WORLD_WIDTH-1 or the row v = 0 (the
\* cells of the south walls); the column u = 0 and the row v =
\* WORLD_HEIGHT-1 (the cells of the north walls) do hold obstacles.
C15_NoObstacleOnSouthWalls ==
    EndOfFrame =>
        /\ \A k \in DOMAIN coll_boxes : ObstacleCells(coll_boxes[k]) # {}
        /\ \A c \in PlacedCells :
              /\ c[1] \in 0..(WORLD_WIDTH - 2)
              /\ c[2] \in 1..(WORLD_HEIGHT - 1)
        /\ \E c \in PlacedCells : c[1] = 0
        /\ \E c \in PlacedCells : c[2] = WORLD_HEIGHT - 1

\* a later iteration whose obstacles include one shifted off the last
\* column and one left on the first
C15_Witness ==
    /\ EndOfFrame
    /\ frames >= 2
    /\ \E c \in PlacedCells : c[1] = WORLD_WIDTH - 2
    /\ \E c \in PlacedCells : c[1] = 0
    /\ Cardinality(PlacedCells) < Len(coll_boxes)

\* the place of a kind of event in the stated order of the draw pass
StatedRank(kind) ==
    CASE kind \in {"resolve_collisions", "clear_coll_boxes"} -> 0
      [] kind = "floor" -> 1
      [] kind = "ground_covering" -> 2
      [] kind \in {"wall_north_corner", "wall_north_west", "wall_north_east",
                   "wall_west_corner", "wall_east_corner"} -> 3
      [] kind \in {"object", "coll_box"} -> 4
      [] kind = "character" -> 5
      [] kind \in {"wall_south_east", "wall_south_west", "wall_south_corner"} -> 6
      [] kind \in {"debug_box", "debug_character_box"} -> 7
      [] OTHER -> 8

\* the same with the character before the scenery objects
DrawnRank(kind) ==
    CASE kind = "character" -> 4
      [] kind \in {"object", "coll_box"} -> 5
      [] OTHER -> StatedRank(kind)

InOrder(ev, rank(_)) ==
    \A i \in 1..(Len(ev) - 1) : rank(ev[i].kind) <= rank(ev[i + 1].kind)

\* every pass of the draw pass happened, the character exactly once, and each
\* object drawn is followed at once by the registration of its box
PassesComplete(ev) ==
    /\ Cardinality({ i \in DOMAIN ev : ev[i].kind = "floor" }) = Cells
    /\ Cardinality({ i \in DOMAIN ev : ev[i].kind = "character" }) = 1
    /\ Cardinality({ i \in DOMAIN ev : ev[i].kind = "coll_box" }) = Len(coll_boxes)
    /\ Cardinality({ i \in DOMAIN ev : ev[i].kind = "debug_box" }) = Len(coll_boxes)
    /\ \E i \in DOMAIN ev : ev[i].kind = "ground_covering"
    /\ \E i \in DOMAIN ev : ev[i].kind = "wall_north_east"
    /\ \E i \in DOMAIN ev : ev[i].kind = "wall_south_corner"
    /\ \A i \in DOMAIN ev :
          ev[i].kind = "object" =>
              (i < Len(ev) /\ ev[i + 1].kind = "coll_box" /\ ev[i + 1].tex = ev[i].tex)

LastOf(ev, kind) ==
    CHOOSE k \in DOMAIN ev :
        ev[k].kind = kind /\ \A j \in (k + 1)..Len(ev) : ev[j].kind # kind

\* C16 as stated: the draw events of an iteration are in the order floor,
\* ground covering, north walls, scenery objects (each followed by its box),
\* character, south walls, debug wireframes; the character is drawn after
\* the last object.
C16_CharacterAfterObjects ==
    EndOfFrame =>
        /\ PassesComplete(events)
        /\ InOrder(events, StatedRank)
        /\ LastOf(events, "object") < FirstOf(events, "character")

\* C16 amended: the draw events of an iteration are in the order floor,
\* ground covering, north walls, character, scenery objects (each followed
\* by its box), south walls, debug wireframes; the character is drawn before
\* the first object.
C16_CharacterBeforeObjects ==
    EndOfFrame =>
        /\ PassesComplete(events)
        /\ InOrder(events, DrawnRank)
        /\ FirstOf(events, "character") < FirstOf(events, "object")

\* a later iteration that drew the character, the objects and the collision
\* text
C16_Witness ==
    /\ EndOfFrame
    /\ frames >= 2
    /\ was_collision
    /\ FirstOf(events, "character") > 0
    /\ FirstOf(events, "object") > FirstOf(events, "character")
    /\ FirstOf(events, "text_collision") = Len(events)

\* the sum of the corrections the first k boxes of a list give, each taken
\* alone against the same hit box
VectorSum(a, b) == Vector2(a.x + b.x, a.y + b.y)

RECURSIVE SumOfPushes(_, _, _)
SumOfPushes(hit, boxes, k) ==
    IF k = 0 THEN Vector2(0, 0)
    ELSE VectorSum(SumOfPushes(hit, boxes, k - 1), StatedPush(hit, boxes[k]))

\* C17: the hit box of an iteration is computed once, from the integrated
\* and clamped position; every box of the list is tested against it, and the
\* position the iteration ends with is that position plus the sum of the
\* corrections each overlapped box gives alone; the flags are set once any
\* box is overlapped.
C17_AdditiveSinglePass ==
    [][FrameStep =>
          /\ HitBoxOrigin(character_hit_box')
                = Clamp(Integrate(char_pos, char_dp', dt'))
          /\ char_pos' = VectorSum(HitBoxOrigin(character_hit_box'),
                                   SumOfPushes(character_hit_box', coll_boxes,
                                               Len(coll_boxes)))
          /\ was_collision' <=> Hits(character_hit_box', coll_boxes) # {}]_vars

\* an iteration whose hit box overlapped two boxes, one corrected along each
\* axis
C17_Witness ==
    /\ EndOfFrame
    /\ frames >= 2
    /\ was_collision
    /\ Cardinality(Hits(character_hit_box, coll_boxes)) = 2
    /\ char_pos.x # HitBoxOrigin(character_hit_box).x
    /\ char_pos.y # HitBoxOrigin(character_hit_box).y

\* C18 as stated: when the hit box of an iteration overlapped exactly one
\* box, the hit box moved to the corrected position no longer overlaps it.
C18_PushOutSeparates ==
    [][FrameStep =>
          \A k \in DOMAIN coll_boxes :
              Hits(character_hit_box', coll_boxes) = {k} =>
                  ~Intersect(CharacterHitBox(char_pos'), coll_boxes[k])]_vars

====
